---- MODULE Spec2Model ----
(***************************************************************************)
(* Model of the balances pallet (src/src/balances.rs): a BTreeMap from     *)
(* account name to u128 balance with set_balance, get_balance and a        *)
(* checked transfer.                                                       *)
(*                                                                         *)
(* Spec       every method call is one step (a call runs to completion).   *)
(* SpecSteps  transfer is split at its two set_balance writes, to examine  *)
(*            what can happen between them.                                *)
(***************************************************************************)
EXTENDS Integers, FiniteSets, Sequences, TLC

\* ---------------------------------------------------------------- bounds
\* Number of distinct account names the callers use.
NumAccounts == 3
\* Width of the balance type; the source uses u128, the model a narrow
\* unsigned integer with the same checked arithmetic.
BalanceBits == 2

\* -------------------------------------------------------------- the types
AccountNames == <<"alice", "bob", "carol", "dave", "eve", "frank">>
Accounts == {AccountNames[i] : i \in 1..NumAccounts}

\* Largest value of the balance type (u128::MAX at the source's width).
u128_MAX == 2^BalanceBits - 1
u128 == 0..u128_MAX

\* Option<u128>
Some(v) == [tag |-> "Some", value |-> v]
None == [tag |-> "None"]

\* Result<(), &'static str>
Ok == [tag |-> "Ok"]
Err(msg) == [tag |-> "Err", msg |-> msg]

\* u128::checked_sub: None on underflow.
checked_sub_wrapping(a, b) == Some((a - b + u128_MAX + 1) % (u128_MAX + 1))
checked_sub_strict(a, b) == IF a <= b THEN None ELSE Some(a - b)
checked_sub(a, b) == IF a < b THEN None ELSE Some(a - b)

\* u128::checked_add: None on overflow.
checked_add_wrapping(a, b) == Some((a + b) % (u128_MAX + 1))
checked_add_off_by_one(a, b) == IF a + b >= u128_MAX THEN None ELSE Some(a + b)
checked_add_unchecked(a, b) == Some(a + b)
checked_add(a, b) == IF a + b > u128_MAX THEN None ELSE Some(a + b)

\* ------------------------------------------------------ the pallet, pure
\* Pallet::new: an empty map.
new == [w \in {} |-> 0]

\* Pallet::set_balance: BTreeMap::insert, which adds or overwrites.
set_balance_keep_existing(m, who, amount) ==
    [w \in DOMAIN m \cup {who} |-> IF w \in DOMAIN m THEN m[w] ELSE amount]
set_balance_remove_zero(m, who, amount) ==
    IF amount = 0
    THEN [w \in DOMAIN m \ {who} |-> m[w]]
    ELSE [w \in DOMAIN m \cup {who} |-> IF w = who THEN amount ELSE m[w]]
set_balance_clears_others(m, who, amount) == [w \in {who} |-> amount]
set_balance(m, who, amount) ==
    [w \in DOMAIN m \cup {who} |-> IF w = who THEN amount ELSE m[w]]

\* Pallet::get_balance: the entry's value, or 0 without an entry.
get_balance_default_one(m, who) == IF who \in DOMAIN m THEN m[who] ELSE 1
get_balance(m, who) == IF who \in DOMAIN m THEN m[who] ELSE 0

\* Pallet::transfer as a function of the map: the map it leaves and the
\* Result it returns.
transfer_no_debit(m, caller, to, amount) ==
    LET caller_balance == get_balance(m, caller)
        to_balance == get_balance(m, to)
        new_caller_balance == checked_sub(caller_balance, amount)
        new_to_balance == checked_add(to_balance, amount)
    IN  IF new_caller_balance.tag = "None"
        THEN [balances |-> m, result |-> Err("Not enough funds.")]
        ELSE IF new_to_balance.tag = "None"
        THEN [balances |-> m, result |-> Err("Overflow error.")]
        ELSE [balances |-> set_balance(set_balance(m, caller, caller_balance),
                                       to, new_to_balance.value),
              result |-> Ok]
transfer_debit_before_check(m, caller, to, amount) ==
    LET caller_balance == get_balance(m, caller)
        to_balance == get_balance(m, to)
        new_caller_balance == checked_sub(caller_balance, amount)
        new_to_balance == checked_add(to_balance, amount)
    IN  IF new_caller_balance.tag = "None"
        THEN [balances |-> m, result |-> Err("Not enough funds.")]
        ELSE IF new_to_balance.tag = "None"
        THEN [balances |-> set_balance(m, caller, new_caller_balance.value),
              result |-> Err("Overflow error.")]
        ELSE [balances |-> set_balance(set_balance(m, caller, new_caller_balance.value),
                                       to, new_to_balance.value),
              result |-> Ok]
transfer_overflow_first(m, caller, to, amount) ==
    LET caller_balance == get_balance(m, caller)
        to_balance == get_balance(m, to)
        new_caller_balance == checked_sub(caller_balance, amount)
        new_to_balance == checked_add(to_balance, amount)
    IN  IF new_to_balance.tag = "None"
        THEN [balances |-> m, result |-> Err("Overflow error.")]
        ELSE IF new_caller_balance.tag = "None"
        THEN [balances |-> m, result |-> Err("Not enough funds.")]
        ELSE [balances |-> set_balance(set_balance(m, caller, new_caller_balance.value),
                                       to, new_to_balance.value),
              result |-> Ok]
transfer_writes_swapped(m, caller, to, amount) ==
    LET caller_balance == get_balance(m, caller)
        to_balance == get_balance(m, to)
        new_caller_balance == checked_sub(caller_balance, amount)
        new_to_balance == checked_add(to_balance, amount)
    IN  IF new_caller_balance.tag = "None"
        THEN [balances |-> m, result |-> Err("Not enough funds.")]
        ELSE IF new_to_balance.tag = "None"
        THEN [balances |-> m, result |-> Err("Overflow error.")]
        ELSE [balances |-> set_balance(set_balance(m, to, new_to_balance.value),
                                       caller, new_caller_balance.value),
              result |-> Ok]
transfer(m, caller, to, amount) ==
    LET caller_balance == get_balance(m, caller)
        to_balance == get_balance(m, to)
        new_caller_balance == checked_sub(caller_balance, amount)
        new_to_balance == checked_add(to_balance, amount)
    IN  IF new_caller_balance.tag = "None"
        THEN [balances |-> m, result |-> Err("Not enough funds.")]
        ELSE IF new_to_balance.tag = "None"
        THEN [balances |-> m, result |-> Err("Overflow error.")]
        ELSE [balances |-> set_balance(set_balance(m, caller, new_caller_balance.value),
                                       to, new_to_balance.value),
              result |-> Ok]

\* ---------------------------------------------------------------- state
VARIABLES
    balances,   \* Pallet.balances: a function from the accounts with an entry
    call,       \* the most recent method call and its arguments
    pre,        \* Pallet.balances when that call was made
    ret,        \* what that call returned
    pc,         \* SpecSteps: position inside transfer ("idle" outside it)
    locals      \* SpecSteps: new_caller_balance and new_to_balance of the
                \* transfer in progress

vars == <<balances, call, pre, ret, pc, locals>>

NoLocals == [new_caller_balance |-> 0, new_to_balance |-> 0]

\* The state after Pallet::new().
Init ==
    /\ balances = new
    /\ call = [op |-> "new"]
    /\ pre = new
    /\ ret = [tag |-> "Self"]
    /\ pc = "idle"
    /\ locals = NoLocals

\* Every method takes &mut self and runs to completion: a call starts only
\* when no other call on the pallet is in progress.
Exclusive == pc = "idle"

\* balances.set_balance(&who, amount)
SetBalance(who, amount) ==
    /\ Exclusive
    /\ call' = [op |-> "set_balance", who |-> who, amount |-> amount]
    /\ pre' = balances
    /\ balances' = set_balance(balances, who, amount)
    /\ ret' = [tag |-> "()"]
    /\ UNCHANGED <<pc, locals>>

\* balances.get_balance(&who)
GetBalanceUnguarded(who) ==
    /\ call' = [op |-> "get_balance", who |-> who]
    /\ pre' = balances
    /\ ret' = [tag |-> "u128", value |-> get_balance(balances, who)]
    /\ UNCHANGED <<balances, pc, locals>>
GetBalanceInserting(who) ==
    /\ Exclusive
    /\ call' = [op |-> "get_balance", who |-> who]
    /\ pre' = balances
    /\ ret' = [tag |-> "u128", value |-> get_balance(balances, who)]
    /\ balances' = set_balance(balances, who, get_balance(balances, who))
    /\ UNCHANGED <<pc, locals>>
GetBalance(who) ==
    /\ Exclusive
    /\ call' = [op |-> "get_balance", who |-> who]
    /\ pre' = balances
    /\ ret' = [tag |-> "u128", value |-> get_balance(balances, who)]
    /\ UNCHANGED <<balances, pc, locals>>

\* balances.transfer(caller, to, amount), the whole call
Transfer(caller, to, amount) ==
    /\ Exclusive
    /\ call' = [op |-> "transfer", caller |-> caller, to |-> to, amount |-> amount]
    /\ pre' = balances
    /\ balances' = transfer(balances, caller, to, amount).balances
    /\ ret' = transfer(balances, caller, to, amount).result
    /\ UNCHANGED <<pc, locals>>

Next ==
    \/ \E who \in Accounts, amount \in u128 : SetBalance(who, amount)
    \/ \E who \in Accounts : GetBalance(who)
    \/ \E caller \in Accounts, to \in Accounts, amount \in u128 :
          Transfer(caller, to, amount)

Spec == Init /\ [][Next]_vars

\* ------------------------------------------- transfer, one write per step
\* transfer up to its two checks (the reads, checked_sub, checked_add and the
\* two early returns); on success the two new balances wait to be written.
TransferBegin(caller, to, amount) ==
    /\ Exclusive
    /\ call' = [op |-> "transfer", caller |-> caller, to |-> to, amount |-> amount]
    /\ pre' = balances
    /\ LET caller_balance == get_balance(balances, caller)
           to_balance == get_balance(balances, to)
           new_caller_balance == checked_sub(caller_balance, amount)
           new_to_balance == checked_add(to_balance, amount)
       IN  IF new_caller_balance.tag = "None"
           THEN /\ ret' = Err("Not enough funds.")
                /\ UNCHANGED <<pc, locals>>
           ELSE IF new_to_balance.tag = "None"
           THEN /\ ret' = Err("Overflow error.")
                /\ UNCHANGED <<pc, locals>>
           ELSE /\ ret' = [tag |-> "running"]
                /\ pc' = "write_caller"
                /\ locals' = [new_caller_balance |-> new_caller_balance.value,
                              new_to_balance |-> new_to_balance.value]
    /\ UNCHANGED balances

\* self.set_balance(&caller, new_caller_balance)
TransferWriteCaller ==
    /\ pc = "write_caller"
    /\ balances' = set_balance(balances, call.caller, locals.new_caller_balance)
    /\ pc' = "write_to"
    /\ UNCHANGED <<call, pre, ret, locals>>

\* self.set_balance(&to, new_to_balance); Ok(())
TransferWriteTo ==
    /\ pc = "write_to"
    /\ balances' = set_balance(balances, call.to, locals.new_to_balance)
    /\ pc' = "idle"
    /\ ret' = Ok
    /\ locals' = NoLocals
    /\ UNCHANGED <<call, pre>>

NextSteps ==
    \/ \E who \in Accounts, amount \in u128 : SetBalance(who, amount)
    \/ \E who \in Accounts : GetBalance(who)
    \/ \E caller \in Accounts, to \in Accounts, amount \in u128 :
          TransferBegin(caller, to, amount)
    \/ TransferWriteCaller
    \/ TransferWriteTo

SpecSteps == Init /\ [][NextSteps]_vars

\* ================================================================ claims
\* In the formulas below `call` is the call that has just returned, `pre` the
\* map it was made on, `balances` the map it left and `ret` its result.

\* C1: a transfer between two distinct accounts whose caller holds at least
\* the amount and whose recipient stays within the maximum returns Ok, takes
\* exactly the amount from the caller, gives exactly the amount to the
\* recipient and keeps the sum of the two balances.
C1_TransferMovesAmount ==
    (/\ call.op = "transfer"
     /\ call.caller # call.to
     /\ get_balance(pre, call.caller) >= call.amount
     /\ get_balance(pre, call.to) + call.amount <= u128_MAX)
    => /\ ret.tag = "Ok"
       /\ get_balance(balances, call.caller)
            = get_balance(pre, call.caller) - call.amount
       /\ get_balance(balances, call.to)
            = get_balance(pre, call.to) + call.amount
       /\ get_balance(balances, call.caller) + get_balance(balances, call.to)
            = get_balance(pre, call.caller) + get_balance(pre, call.to)

C1_Witness ==
    /\ call.op = "transfer"
    /\ call.caller # call.to
    /\ call.amount > 0
    /\ get_balance(pre, call.to) > 0
    /\ ret.tag = "Ok"
    /\ get_balance(balances, call.to) = get_balance(pre, call.to) + call.amount

\* C2: a transfer whose caller holds less than the amount returns
\* Err("Not enough funds.") and leaves the balances of caller and recipient
\* as they were.
C2_InsufficientFunds ==
    (/\ call.op = "transfer"
     /\ get_balance(pre, call.caller) < call.amount)
    => /\ ret.tag = "Err"
       /\ ret.msg = "Not enough funds."
       /\ get_balance(balances, call.caller) = get_balance(pre, call.caller)
       /\ get_balance(balances, call.to) = get_balance(pre, call.to)

C2_Witness ==
    /\ call.op = "transfer"
    /\ call.caller # call.to
    /\ get_balance(pre, call.caller) > 0
    /\ get_balance(pre, call.caller) < call.amount
    /\ ret.tag = "Err"
    /\ ret.msg = "Not enough funds."

\* C3: a transfer from an account to itself that returns Ok leaves that
\* account's balance as it was.
C3_SelfTransferNeutral ==
    (/\ call.op = "transfer"
     /\ call.caller = call.to
     /\ ret.tag = "Ok")
    => get_balance(balances, call.caller) = get_balance(pre, call.caller)

\* C4: a transfer from an account to itself returns Ok whenever the account
\* holds at least the amount, also when balance + amount exceeds the maximum.
C4_SelfTransferSucceeds ==
    (/\ call.op = "transfer"
     /\ call.caller = call.to
     /\ get_balance(pre, call.caller) >= call.amount)
    => ret.tag = "Ok"

\* C5 as stated: a transfer whose recipient's balance plus the amount exceeds
\* the maximum returns Err("Overflow error.") and leaves the balances of
\* caller and recipient as they were.
C5_OverflowAlways ==
    (/\ call.op = "transfer"
     /\ get_balance(pre, call.to) + call.amount > u128_MAX)
    => /\ ret.tag = "Err"
       /\ ret.msg = "Overflow error."
       /\ get_balance(balances, call.caller) = get_balance(pre, call.caller)
       /\ get_balance(balances, call.to) = get_balance(pre, call.to)

\* C5 as amended: a transfer whose caller holds at least the amount and whose
\* recipient's balance plus the amount exceeds the maximum returns
\* Err("Overflow error.") and leaves the balances of caller and recipient as
\* they were.
C5_OverflowWhenFunded ==
    (/\ call.op = "transfer"
     /\ get_balance(pre, call.caller) >= call.amount
     /\ get_balance(pre, call.to) + call.amount > u128_MAX)
    => /\ ret.tag = "Err"
       /\ ret.msg = "Overflow error."
       /\ get_balance(balances, call.caller) = get_balance(pre, call.caller)
       /\ get_balance(balances, call.to) = get_balance(pre, call.to)

C5_Witness ==
    /\ call.op = "transfer"
    /\ call.caller # call.to
    /\ call.amount > 0
    /\ get_balance(pre, call.caller) >= call.amount
    /\ get_balance(pre, call.to) + call.amount > u128_MAX
    /\ ret.tag = "Err"
    /\ ret.msg = "Overflow error."

\* C6: every transfer call, successful or failed, caller = to included,
\* leaves the sum of the balances of all accounts as it was (so any sequence
\* of transfer calls does).
C6_TotalConserved ==
    LET RECURSIVE Total(_, _)
        Total(m, S) ==
            IF S = {} THEN 0
            ELSE LET a == CHOOSE x \in S : TRUE
                 IN  get_balance(m, a) + Total(m, S \ {a})
    IN  call.op = "transfer" => Total(balances, Accounts) = Total(pre, Accounts)

\* C7: get_balance is 0 for every account without an entry: on the new
\* pallet, in every later map, and as the value a get_balance call returns.
C7_AbsentIsZero ==
    /\ call.op = "new" => \A a \in Accounts : get_balance(balances, a) = 0
    /\ \A a \in Accounts \ DOMAIN balances : get_balance(balances, a) = 0
    /\ (call.op = "get_balance" /\ call.who \notin DOMAIN pre) => ret.value = 0

C7_Witness ==
    /\ call.op = "get_balance"
    /\ call.who \notin DOMAIN pre
    /\ DOMAIN pre # {}
    /\ \E a \in DOMAIN pre : pre[a] > 0
    /\ ret.value = 0

\* C8: after set_balance(a, v), with or without an earlier entry of a,
\* get_balance(a) is exactly v.
C8_SetThenGet ==
    call.op = "set_balance" => get_balance(balances, call.who) = call.amount

C8_Witness ==
    /\ call.op = "set_balance"
    /\ call.who \in DOMAIN pre
    /\ pre[call.who] # call.amount
    /\ get_balance(balances, call.who) = call.amount

\* C9: with the two writes of a successful transfer as separate steps, while
\* a transfer is between its checks and its return no other call starts: the
\* only step after the debit is the credit that completes the same call.
C9_TransferAtomic ==
    [][pc # "idle" =>
          /\ call' = call
          /\ pre' = pre
          /\ \/ pc = "write_caller" /\ pc' = "write_to"
             \/ pc = "write_to" /\ pc' = "idle" /\ ret'.tag = "Ok"]_vars

C9_Witness ==
    /\ pc = "write_to"
    /\ call.caller # call.to
    /\ call.amount > 0
    /\ get_balance(balances, call.caller)
         = get_balance(pre, call.caller) - call.amount
    /\ get_balance(balances, call.to) = get_balance(pre, call.to)

\* C10: a transfer that returns an error leaves the whole map as it was: the
\* same entries with the same balances.
C10_ErrorLeavesMap ==
    (call.op = "transfer" /\ ret.tag = "Err") => balances = pre

C10_Witness ==
    /\ call.op = "transfer"
    /\ ret.tag = "Err"
    /\ ret.msg = "Overflow error."
    /\ call.amount > 0
    /\ call.caller # call.to
    /\ balances = pre

\* C11: the funds check comes before the overflow check: a transfer whose
\* caller holds less than the amount and whose recipient would exceed the
\* maximum returns Err("Not enough funds."), and Err("Overflow error.") is
\* returned only when the caller holds at least the amount.
C11_FundsCheckFirst ==
    call.op = "transfer" =>
        /\ (/\ get_balance(pre, call.caller) < call.amount
            /\ get_balance(pre, call.to) + call.amount > u128_MAX)
           => (ret.tag = "Err" /\ ret.msg = "Not enough funds.")
        /\ (ret.tag = "Err" /\ ret.msg = "Overflow error.")
           => get_balance(pre, call.caller) >= call.amount

C11_Witness ==
    /\ call.op = "transfer"
    /\ call.caller # call.to
    /\ get_balance(pre, call.caller) < call.amount
    /\ get_balance(pre, call.to) + call.amount > u128_MAX
    /\ ret.tag = "Err"
    /\ ret.msg = "Not enough funds."

\* C12: a transfer of amount 0 returns Ok for any caller and recipient (equal
\* or distinct, with or without entries, recipient at the maximum included)
\* and leaves get_balance of every account as it was.
C12_ZeroTransfer ==
    (call.op = "transfer" /\ call.amount = 0)
    => /\ ret.tag = "Ok"
       /\ \A a \in Accounts : get_balance(balances, a) = get_balance(pre, a)

C12_Witness ==
    /\ call.op = "transfer"
    /\ call.amount = 0
    /\ call.caller \notin DOMAIN pre
    /\ get_balance(pre, call.to) = u128_MAX
    /\ ret.tag = "Ok"

\* C13: a get_balance call returns a balance (it has no failure result) and
\* leaves the map as it was; it creates no entry for an absent account.
C13_GetBalanceReadOnly ==
    call.op = "get_balance"
    => /\ balances = pre
       /\ ret.tag = "u128"
       /\ ret.value \in u128

C13_Witness ==
    /\ call.op = "get_balance"
    /\ call.who \notin DOMAIN balances
    /\ DOMAIN balances # {}
    /\ ret.tag = "u128"

\* C14: no step removes an entry: an account with an entry keeps one through
\* every set_balance, get_balance and transfer, also when its balance
\* becomes 0.
C14_EntriesNeverDeleted ==
    [][DOMAIN balances \subseteq DOMAIN balances']_vars

C14_Witness ==
    /\ call.op = "transfer"
    /\ ret.tag = "Ok"
    /\ call.caller # call.to
    /\ call.amount > 0
    /\ pre[call.caller] = call.amount
    /\ call.caller \in DOMAIN balances
    /\ balances[call.caller] = 0

\* C15: every stored balance is between 0 and the maximum, and a transfer
\* that returns Ok never wrapped: the caller's balance minus the amount was
\* not below 0 and the recipient's balance plus the amount not above the
\* maximum.
C15_BalancesInRange ==
    /\ \A a \in DOMAIN balances : balances[a] \in u128
    /\ (call.op = "transfer" /\ ret.tag = "Ok")
       => /\ get_balance(pre, call.caller) - call.amount >= 0
          /\ get_balance(pre, call.to) + call.amount <= u128_MAX

C15_Witness ==
    /\ call.op = "transfer"
    /\ ret.tag = "Ok"
    /\ call.caller # call.to
    /\ call.amount > 0
    /\ balances[call.to] = u128_MAX
    /\ balances[call.caller] = 0

\* C16: set_balance(a, v) adds or changes only the entry of a, a transfer
\* that returns Ok adds or changes only the entries of caller and to, and
\* get_balance and a failed transfer add nothing: every other account keeps
\* its entry, or its absence, and its balance.
C16_Frame ==
    LET touched ==
            IF call.op = "set_balance" THEN {call.who}
            ELSE IF call.op = "transfer" /\ ret.tag = "Ok"
            THEN {call.caller, call.to}
            ELSE {}
    IN  /\ DOMAIN balances = DOMAIN pre \cup touched
        /\ \A a \in DOMAIN pre \ touched : balances[a] = pre[a]

C16_Witness ==
    /\ call.op = "transfer"
    /\ ret.tag = "Ok"
    /\ call.caller # call.to
    /\ call.amount > 0
    /\ call.to \notin DOMAIN pre
    /\ call.to \in DOMAIN balances
    /\ \E a \in DOMAIN pre \ {call.caller, call.to} : pre[a] > 0

\* C17: a transfer returns Ok exactly when, on the map it was called on, the
\* caller's balance is at least the amount and the recipient's balance plus
\* the amount does not exceed the maximum.
C17_SuccessIff ==
    call.op = "transfer" =>
        (ret.tag = "Ok"
         <=> /\ get_balance(pre, call.caller) >= call.amount
             /\ get_balance(pre, call.to) + call.amount <= u128_MAX)

C17_Witness ==
    /\ call.op = "transfer"
    /\ ret.tag = "Ok"
    /\ call.amount > 0
    /\ get_balance(pre, call.caller) = call.amount
    /\ get_balance(pre, call.to) + call.amount = u128_MAX

\* C18: after a transfer that returns Ok the recipient's balance is its
\* balance before the call plus the amount, also when caller = to, where the
\* write of the recipient's balance comes last.
C18_RecipientWriteLast ==
    (call.op = "transfer" /\ ret.tag = "Ok")
    => get_balance(balances, call.to) = get_balance(pre, call.to) + call.amount

C18_Witness ==
    /\ call.op = "transfer"
    /\ ret.tag = "Ok"
    /\ call.caller = call.to
    /\ call.amount > 0
    /\ balances[call.to] = pre[call.to] + call.amount

====
